---- MODULE Spec2Model ----
(***************************************************************************)
(* Model of benchmark_function.py: the input validator `check`, the nine   *)
(* benchmark functions of class BenchmarkFunction, and the two metadata    *)
(* accessors search_area and optimal_solution.                             *)
(*                                                                         *)
(* An ndarray is a record [shape, data]: its shape tuple and its row-major *)
(* flat buffer.  Inputs are integer arrays.  The functions whose formulas  *)
(* use only integer arithmetic (sphere, k_tablet, rosenbrock_star,         *)
(* rosenbrock_chain) return integers.  The float-valued functions return   *)
(* an exact real in normal form [q, t]: q is the rational part in tenths   *)
(* (the literals 0.3, 0.4, 0.7 have denominator 10) and t is the sequence  *)
(* of irrational summands that do not vanish, kept as symbolic terms.  At  *)
(* integer points cos(k*pi) = (-1)^k, exp(0) = 1, sqrt(0) = 0 and          *)
(* sin(0) = 0 are taken exactly.                                           *)
(***************************************************************************)
EXTENDS Integers, Sequences, FiniteSets, TLC

\* ---------------------------------------------------------------- bounds
\* largest number of cells (rows * columns) of a rank-2 input batch
MaxCells == 4
\* largest number of cells of an input whose rank is 1 or 3
MaxOtherCells == 2
\* the components of the inputs range over -1..GridMax
GridMax == 2
\* largest dimension asked of optimal_solution
MaxDimension == 2
\* number of in-place modifications callers make to returned mappings
MaxEdits == 1
\* longest list a caller grows a returned point to
MaxLen == 3

Grid == -1..GridMax

Names ==
  {"sphere", "ellipsoid", "k_tablet", "rosenbrock_star", "rosenbrock_chain",
   "bohachevsky", "ackley", "schaffer", "rastrigin"}

IntNames == {"sphere", "k_tablet", "rosenbrock_star", "rosenbrock_chain"}

\* ------------------------------------------------------------ ndarrays
RECURSIVE Prod(_)
Prod(shape) == IF shape = <<>> THEN 1 ELSE Head(shape) * Prod(Tail(shape))

RECURSIVE SeqSum(_)
SeqSum(s) == IF s = <<>> THEN 0 ELSE Head(s) + SeqSum(Tail(s))

RECURSIVE Concat(_)
Concat(ss) == IF ss = <<>> THEN <<>> ELSE Head(ss) \o Concat(Tail(ss))

Arrays(shape) == {[shape |-> shape, data |-> d] : d \in [1..Prod(shape) -> Grid]}

\* rank-2 shapes (n, m): n >= 0 rows of m >= 1 columns
Shapes2 == {s \in (0..MaxCells) \X (1..MaxCells) : s[1] * s[2] <= MaxCells}

\* shapes of rank 0, 1 and 3
ShapesOther ==
  {<<>>} \cup {<<k>> : k \in 0..MaxOtherCells} \cup
  {s \in (1..MaxOtherCells) \X (1..MaxOtherCells) \X (1..MaxOtherCells) :
     s[1] * s[2] * s[3] <= MaxOtherCells}

Inputs == UNION {Arrays(s) : s \in Shapes2 \cup ShapesOther}

Rows(x) == x.shape[1]
Cols(x) == x.shape[2]
Row(x, j) == [i \in 1..Cols(x) |-> x.data[(j - 1) * Cols(x) + i]]
OneRow(point) == [shape |-> <<1, Len(point)>>, data |-> point]

NoInput == [shape |-> <<0>>, data |-> <<>>]

\* --------------------------------------------------- outcomes of a call
Ok(v) == [outcome |-> "ok", returned |-> TRUE, output |-> v]
Raise(e) == [outcome |-> e, returned |-> FALSE, output |-> <<>>]
NoCall == [outcome |-> "none", returned |-> FALSE, output |-> <<>>]

\* ------------------------------------------------------------ exact reals
RZero == [q |-> 0, t |-> <<>>]
\* cos(k * pi) for an integer k
CosPi(k) == IF k % 2 = 0 THEN 1 ELSE -1
NonZero(term) == term[2] # 0

\* --------------------------------------------------------------- check
np_array(x) == [shape |-> x.shape, data |-> x.data]

\* variant: ranks above 2 pass (len(x.shape) < 2 for len(x.shape) != 2)
check_lt2(x) ==
  LET a == np_array(x)
  IN  IF Len(a.shape) < 2 THEN Raise("ShapeError") ELSE Ok(a)

check(x) ==
  LET a == np_array(x)
  IN  IF Len(a.shape) # 2 THEN Raise("ShapeError") ELSE Ok(a)

\* ----------------------------------------------------- the nine functions
\* variant: .sum() over every axis for .sum(axis=-1)
sphere_value_all(x) ==
  [j \in 1..Rows(x) |-> SeqSum([i \in 1..Len(x.data) |-> x.data[i] ^ 2])]

sphere_value(x) ==
  [j \in 1..Rows(x) |-> SeqSum([i \in 1..Cols(x) |-> Row(x, j)[i] ^ 2])]

sphere(input_array) ==
  LET c == check(input_array)
  IN  IF c.outcome # "ok" THEN c ELSE Ok(sphere_value(c.output))

\* (x_i * coef_i)^2 with coef_i = 1000^(i/(dim-1)) = 10^(3i/(dim-1)), i from 0:
\* x_i^2 * 10^(6i/(dim-1)), rational when dim-1 divides 6i
ellipsoid_q(r, dim) ==
  SeqSum([i \in 1..dim |->
    IF (6 * (i - 1)) % (dim - 1) = 0
    THEN 10 * r[i] ^ 2 * 10 ^ ((6 * (i - 1)) \div (dim - 1)) ELSE 0])

ellipsoid_t(r, dim) ==
  SelectSeq([i \in 1..dim |->
    IF (6 * (i - 1)) % (dim - 1) = 0 THEN <<"pow10", 0, 0, 0>>
    ELSE <<"pow10", r[i] ^ 2, 6 * (i - 1), dim - 1>>], NonZero)

ellipsoid_value(x) ==
  LET dim == Cols(x)
  IN  [j \in 1..Rows(x) |->
        [q |-> ellipsoid_q(Row(x, j), dim), t |-> ellipsoid_t(Row(x, j), dim)]]

\* coef = [1000**(i/(dim-1)) for i in range(dim)] divides by zero when dim is 1
ellipsoid_body(x) ==
  LET dim == Cols(x)
  IN  IF dim >= 1 /\ dim - 1 = 0 THEN Raise("ZeroDivisionError")
      ELSE Ok(ellipsoid_value(x))

ellipsoid(input_array) ==
  LET c == check(input_array)
  IN  IF c.outcome # "ok" THEN c ELSE ellipsoid_body(c.output)

\* variant: dim // 4 for math.ceil(dim/4)
floor_div4(dim) == dim \div 4

\* math.ceil(dim/4)
ceil_div4(dim) == (dim + 3) \div 4

k_tablet_value(x) ==
  LET dim == Cols(x)
      k == ceil_div4(dim)
  IN  [j \in 1..Rows(x) |->
        SeqSum([i \in 1..k |-> Row(x, j)[i] ^ 2])
        + SeqSum([i \in 1..(dim - k) |-> (100 * Row(x, j)[k + i]) ^ 2])]

k_tablet(input_array) ==
  LET c == check(input_array)
  IN  IF c.outcome # "ok" THEN c ELSE Ok(k_tablet_value(c.output))

rosenbrock_star_value(x) ==
  [j \in 1..Rows(x) |->
    LET r == Row(x, j)
        first == r[1]
        rest == [i \in 1..(Cols(x) - 1) |-> r[i + 1]]
    IN  SeqSum([i \in 1..Len(rest) |->
          100 * (first - rest[i] ^ 2) ^ 2 + (1 - rest[i]) ^ 2])]

rosenbrock_star(input_array) ==
  LET c == check(input_array)
  IN  IF c.outcome # "ok" THEN c ELSE Ok(rosenbrock_star_value(c.output))

\* variant: the (1 - x)^2 summand is dropped
rosenbrock_chain_value_nolin(x) ==
  [j \in 1..Rows(x) |->
    LET r == Row(x, j)
        tail == [i \in 1..(Cols(x) - 1) |-> r[i + 1]]
        init == [i \in 1..(Cols(x) - 1) |-> r[i]]
    IN  SeqSum([i \in 1..Len(tail) |-> 100 * (tail[i] - init[i] ^ 2) ^ 2])]

rosenbrock_chain_value(x) ==
  [j \in 1..Rows(x) |->
    LET r == Row(x, j)
        tail == [i \in 1..(Cols(x) - 1) |-> r[i + 1]]
        init == [i \in 1..(Cols(x) - 1) |-> r[i]]
    IN  SeqSum([i \in 1..Len(tail) |->
          100 * (tail[i] - init[i] ^ 2) ^ 2 + (1 - init[i]) ^ 2])]

rosenbrock_chain(input_array) ==
  LET c == check(input_array)
  IN  IF c.outcome # "ok" THEN c ELSE Ok(rosenbrock_chain_value(c.output))

\* in tenths: x^2 + 2y^2 - 0.3cos(3 pi x) - 0.4cos(4 pi y) + 0.7
bohachevsky_value(x) ==
  [j \in 1..Rows(x) |->
    LET r == Row(x, j)
        tail == [i \in 1..(Cols(x) - 1) |-> r[i + 1]]
        init == [i \in 1..(Cols(x) - 1) |-> r[i]]
    IN  [q |-> SeqSum([i \in 1..Len(tail) |->
                 10 * init[i] ^ 2 + 20 * tail[i] ^ 2
                 - 3 * CosPi(3 * init[i]) - 4 * CosPi(4 * tail[i]) + 7]),
         t |-> <<>>]]

bohachevsky(input_array) ==
  LET c == check(input_array)
  IN  IF c.outcome # "ok" THEN c ELSE Ok(bohachevsky_value(c.output))

\* 20 - 20exp(-0.2 sqrt(S/dim)) + e - exp(C/dim): the first difference vanishes
\* exactly when S = 0, the second exactly when C = dim; 0/0 is nan when dim = 0
ackley_value(x) ==
  LET dim == Cols(x)
  IN  [j \in 1..Rows(x) |->
        LET r == Row(x, j)
            S == SeqSum([i \in 1..dim |-> r[i] ^ 2])
            C == SeqSum([i \in 1..dim |-> CosPi(2 * r[i])])
        IN  IF dim = 0 THEN [q |-> 0, t |-> << <<"nan", 1>> >>]
            ELSE [q |-> 0,
                  t |-> SelectSeq(<< <<"20-20exp(-0.2sqrt)", S, dim>>,
                                     <<"e-exp", dim - C, dim>> >>, NonZero)]]

ackley(input_array) ==
  LET c == check(input_array)
  IN  IF c.outcome # "ok" THEN c ELSE Ok(ackley_value(c.output))

\* r^0.25 * (sin(50 r^0.1)^2 + 1) with r = x^2 + y^2: zero exactly when r = 0
schaffer_value(x) ==
  [j \in 1..Rows(x) |->
    LET r == Row(x, j)
        tail == [i \in 1..(Cols(x) - 1) |-> r[i + 1]]
        init == [i \in 1..(Cols(x) - 1) |-> r[i]]
    IN  [q |-> 0,
         t |-> SelectSeq([i \in 1..Len(tail) |->
                 <<"r^0.25(sin(50r^0.1)^2+1)", init[i] ^ 2 + tail[i] ^ 2>>],
                 NonZero)]]

schaffer(input_array) ==
  LET c == check(input_array)
  IN  IF c.outcome # "ok" THEN c ELSE Ok(schaffer_value(c.output))

\* in tenths: 10 dim + sum((x-1)^2 - 10cos(2 pi (x-1)))
rastrigin_value(x) ==
  LET dim == Cols(x)
  IN  [j \in 1..Rows(x) |->
        LET r == Row(x, j)
        IN  [q |-> 10 * (10 * dim
                   + SeqSum([i \in 1..dim |->
                       (r[i] - 1) ^ 2 - 10 * CosPi(2 * (r[i] - 1))])),
             t |-> <<>>]]

rastrigin(input_array) ==
  LET c == check(input_array)
  IN  IF c.outcome # "ok" THEN c ELSE Ok(rastrigin_value(c.output))

\* the call of the function named f
Apply(f, x) ==
  CASE f = "sphere" -> sphere(x)
    [] f = "ellipsoid" -> ellipsoid(x)
    [] f = "k_tablet" -> k_tablet(x)
    [] f = "rosenbrock_star" -> rosenbrock_star(x)
    [] f = "rosenbrock_chain" -> rosenbrock_chain(x)
    [] f = "bohachevsky" -> bohachevsky(x)
    [] f = "ackley" -> ackley(x)
    [] f = "schaffer" -> schaffer(x)
    [] f = "rastrigin" -> rastrigin(x)

\* the statements of the function named f that follow its call of check
Body(f, x) ==
  CASE f = "sphere" -> Ok(sphere_value(x))
    [] f = "ellipsoid" -> ellipsoid_body(x)
    [] f = "k_tablet" -> Ok(k_tablet_value(x))
    [] f = "rosenbrock_star" -> Ok(rosenbrock_star_value(x))
    [] f = "rosenbrock_chain" -> Ok(rosenbrock_chain_value(x))
    [] f = "bohachevsky" -> Ok(bohachevsky_value(x))
    [] f = "ackley" -> Ok(ackley_value(x))
    [] f = "schaffer" -> Ok(schaffer_value(x))
    [] f = "rastrigin" -> Ok(rastrigin_value(x))

\* variant: the array is kept in one place shared by every call
BindShared(locals, c, a) == [k \in DOMAIN locals |-> a]

\* input_array = ...: the name is local to the frame of the call
Bind(locals, c, a) == [locals EXCEPT ![c] = a]

\* ------------------------------------------------- objects and the heap
\* The heap maps the address of each live list object to its items; a dict is
\* a function from its keys to the addresses of its values.
EmptyHeap == <<>>

RECURSIVE NextFree(_, _)
NextFree(h, a) == IF a \in DOMAIN h THEN NextFree(h, a + 1) ELSE a

\* a new list object with the given items
Alloc(h, items) ==
  LET a == NextFree(h, 1) IN [heap |-> (a :> items) @@ h, addr |-> a]

\* variant: one item too many
Repeat1(v, n) == [i \in 1..(n + 1) |-> v]

\* [v] * n
Repeat(v, n) == [i \in 1..n |-> v]

\* the dict's values, address by address replaced by the list it holds
Deref(h, dict) == [n \in DOMAIN dict |-> h[dict[n]]]

\* the list displays of an expression, allocated left to right
RECURSIVE AllocAll(_, _, _)
AllocAll(h, lists, addrs) ==
  IF lists = <<>> THEN [heap |-> h, addrs |-> addrs]
  ELSE LET a == Alloc(h, Head(lists))
       IN  AllocAll(a.heap, Tail(lists), Append(addrs, a.addr))

\* variant: the bounds of ackley and schaffer are exchanged
search_area_swapped(h) ==
  LET r == AllocAll(h, << <<-5120, 5120>>, <<-5120, 5120>>, <<-5120, 5120>>,
                          <<-2048, 2048>>, <<-2048, 2048>>, <<-5120, 5120>>,
                          <<-100000, 100000>>, <<-32768, 32768>>,
                          <<-5120, 5120>> >>, <<>>)
  IN  [heap |-> r.heap,
       ret |-> [sphere |-> r.addrs[1], ellipsoid |-> r.addrs[2],
                k_tablet |-> r.addrs[3], rosenbrock_star |-> r.addrs[4],
                rosenbrock_chain |-> r.addrs[5], bohachevsky |-> r.addrs[6],
                ackley |-> r.addrs[7], schaffer |-> r.addrs[8],
                rastrigin |-> r.addrs[9]]]

\* search_area(): nine list displays and a dict display (bounds in thousandths)
search_area(h) ==
  LET r == AllocAll(h, << <<-5120, 5120>>, <<-5120, 5120>>, <<-5120, 5120>>,
                          <<-2048, 2048>>, <<-2048, 2048>>, <<-5120, 5120>>,
                          <<-32768, 32768>>, <<-100000, 100000>>,
                          <<-5120, 5120>> >>, <<>>)
  IN  [heap |-> r.heap,
       ret |-> [sphere |-> r.addrs[1], ellipsoid |-> r.addrs[2],
                k_tablet |-> r.addrs[3], rosenbrock_star |-> r.addrs[4],
                rosenbrock_chain |-> r.addrs[5], bohachevsky |-> r.addrs[6],
                ackley |-> r.addrs[7], schaffer |-> r.addrs[8],
                rastrigin |-> r.addrs[9]]]

\* variant: rastrigin is given the zeros
optimal_solution_rastrigin0(h, dimension) ==
  LET zeros == Alloc(h, Repeat(0, dimension))
      ones == Alloc(zeros.heap, Repeat(1, dimension))
  IN  [heap |-> ones.heap,
       ret |-> [sphere |-> zeros.addr, ellipsoid |-> zeros.addr,
                k_tablet |-> zeros.addr, rosenbrock_star |-> ones.addr,
                rosenbrock_chain |-> ones.addr, bohachevsky |-> zeros.addr,
                ackley |-> zeros.addr, schaffer |-> zeros.addr,
                rastrigin |-> zeros.addr]]

\* optimal_solution(dimension): two lists, and a dict whose values are them
optimal_solution(h, dimension) ==
  LET zeros == Alloc(h, Repeat(0, dimension))
      ones == Alloc(zeros.heap, Repeat(1, dimension))
  IN  [heap |-> ones.heap,
       ret |-> [sphere |-> zeros.addr, ellipsoid |-> zeros.addr,
                k_tablet |-> zeros.addr, rosenbrock_star |-> ones.addr,
                rosenbrock_chain |-> ones.addr, bohachevsky |-> zeros.addr,
                ackley |-> zeros.addr, schaffer |-> zeros.addr,
                rastrigin |-> ones.addr]]

\* the point optimal_solution(dimension) gives for a name
OptimalPoint(dimension, name) ==
  LET r == optimal_solution(EmptyHeap, dimension) IN r.heap[r.ret[name]]

\* ------------------------------------------------------------------ state
Slots == {"m1", "m2"}
SlotSeq == <<"m1", "m2">>
NameSeq ==
  <<"sphere", "ellipsoid", "k_tablet", "rosenbrock_star", "rosenbrock_chain",
    "bohachevsky", "ackley", "schaffer", "rastrigin">>
Callers == {"a", "b"}
\* what a caller writes into a returned list
EditVals == {9}
\* largest component of the inputs of the interleaved calls
ConcMax == 1

ConcInputs ==
  {[shape |-> <<1, 2>>, data |-> d] : d \in [1..2 -> 0..ConcMax]} \cup
  {[shape |-> <<1, 1>>, data |-> d] : d \in [1..1 -> 0..ConcMax]} \cup
  {[shape |-> <<2>>, data |-> d] : d \in [1..2 -> 0..ConcMax]}

NoMapping == [kind |-> "none", dict |-> <<>>]
NoOp == [op |-> "none", slot |-> "", dimension |-> 0, outcome |-> "none"]

VARIABLES
  called, input, result,          \* the evaluator's call: function, argument, outcome
  heap, held, last, edits,        \* list objects, the mappings callers hold, last operation
  pc, cfn, carg, clocal, cres     \* interleaved calls: position, function, argument,
                                  \* the frame's input_array, outcome

evalVars == <<called, input, result>>
metaVars == <<heap, held, last, edits>>
concVars == <<pc, cfn, carg, clocal, cres>>
vars == <<called, input, result, heap, held, last, edits, pc, cfn, carg, clocal, cres>>

Init ==
  /\ called = "none"
  /\ input = NoInput
  /\ result = NoCall
  /\ heap = EmptyHeap
  /\ held = [s \in Slots |-> NoMapping]
  /\ last = NoOp
  /\ edits = 0
  /\ pc = [c \in Callers |-> "idle"]
  /\ cfn = [c \in Callers |-> "none"]
  /\ carg = [c \in Callers |-> NoInput]
  /\ clocal = [c \in Callers |-> NoInput]
  /\ cres = [c \in Callers |-> NoCall]

\* ------------------------------------------------------ single calls
\* a call: the caller passes x, the function runs to its return or its raise
Sphere ==
  /\ called = "none"
  /\ \E x \in Inputs : called' = "sphere" /\ input' = x /\ result' = sphere(x)
  /\ UNCHANGED <<metaVars, concVars>>

Ellipsoid ==
  /\ called = "none"
  /\ \E x \in Inputs : called' = "ellipsoid" /\ input' = x /\ result' = ellipsoid(x)
  /\ UNCHANGED <<metaVars, concVars>>

KTablet ==
  /\ called = "none"
  /\ \E x \in Inputs : called' = "k_tablet" /\ input' = x /\ result' = k_tablet(x)
  /\ UNCHANGED <<metaVars, concVars>>

RosenbrockStar ==
  /\ called = "none"
  /\ \E x \in Inputs : called' = "rosenbrock_star" /\ input' = x /\ result' = rosenbrock_star(x)
  /\ UNCHANGED <<metaVars, concVars>>

RosenbrockChain ==
  /\ called = "none"
  /\ \E x \in Inputs : called' = "rosenbrock_chain" /\ input' = x /\ result' = rosenbrock_chain(x)
  /\ UNCHANGED <<metaVars, concVars>>

Bohachevsky ==
  /\ called = "none"
  /\ \E x \in Inputs : called' = "bohachevsky" /\ input' = x /\ result' = bohachevsky(x)
  /\ UNCHANGED <<metaVars, concVars>>

Ackley ==
  /\ called = "none"
  /\ \E x \in Inputs : called' = "ackley" /\ input' = x /\ result' = ackley(x)
  /\ UNCHANGED <<metaVars, concVars>>

Schaffer ==
  /\ called = "none"
  /\ \E x \in Inputs : called' = "schaffer" /\ input' = x /\ result' = schaffer(x)
  /\ UNCHANGED <<metaVars, concVars>>

Rastrigin ==
  /\ called = "none"
  /\ \E x \in Inputs : called' = "rastrigin" /\ input' = x /\ result' = rastrigin(x)
  /\ UNCHANGED <<metaVars, concVars>>

\* the caller has consumed the outcome; nothing of the call is kept
Discard ==
  /\ called # "none"
  /\ called' = "none"
  /\ input' = NoInput
  /\ result' = NoCall
  /\ UNCHANGED <<metaVars, concVars>>

EvalNext ==
  \/ Sphere \/ Ellipsoid \/ KTablet \/ RosenbrockStar \/ RosenbrockChain
  \/ Bohachevsky \/ Ackley \/ Schaffer \/ Rastrigin
  \/ Discard

SpecEval == Init /\ [][EvalNext]_vars

\* ------------------------------------------------- the metadata accessors
\* the addresses the held dicts refer to, slot by slot in key order
DictRefs(d) ==
  LET ks == SelectSeq(NameSeq, LAMBDA n : n \in DOMAIN d)
  IN  [i \in 1..Len(ks) |-> d[ks[i]]]

AllRefs(hd) == Concat([i \in 1..Len(SlotSeq) |-> DictRefs(hd[SlotSeq[i]].dict)])

RECURSIVE Uniq(_, _)
Uniq(refs, acc) ==
  IF refs = <<>> THEN acc
  ELSE Uniq(Tail(refs),
            IF \E k \in 1..Len(acc) : acc[k] = Head(refs) THEN acc
            ELSE Append(acc, Head(refs)))

\* Objects nothing refers to are freed.  An address is only an identity, so
\* the live objects are renumbered in order of first reference: heaps that
\* differ by a renaming of addresses are one state.
Renumber(h, hd, u) ==
  LET at == [a \in {u[k] : k \in 1..Len(u)} |-> CHOOSE k \in 1..Len(u) : u[k] = a]
  IN  [heap |-> [k \in 1..Len(u) |-> h[u[k]]],
       held |-> [s \in Slots |->
                  [kind |-> hd[s].kind,
                   dict |-> [n \in DOMAIN hd[s].dict |-> at[hd[s].dict[n]]]]]]

Collect(h, hd) == Renumber(h, hd, Uniq(AllRefs(hd), <<>>))

\* m = bf.search_area()
SearchArea(s) ==
  LET r == search_area(heap)
      hd == [held EXCEPT ![s] = [kind |-> "search_area", dict |-> r.ret]]
      g == Collect(r.heap, hd)
  IN  /\ held' = g.held
      /\ heap' = g.heap
      /\ last' = [op |-> "search_area", slot |-> s, dimension |-> 0,
                  outcome |-> "none"]
      /\ UNCHANGED <<edits, evalVars, concVars>>

\* m = bf.optimal_solution(d)
OptimalSolution(s, d) ==
  LET r == optimal_solution(heap, d)
      hd == [held EXCEPT ![s] = [kind |-> "optimal_solution", dict |-> r.ret]]
      g == Collect(r.heap, hd)
  IN  /\ held' = g.held
      /\ heap' = g.heap
      /\ last' = [op |-> "optimal_solution", slot |-> s, dimension |-> d,
                  outcome |-> "none"]
      /\ UNCHANGED <<edits, evalVars, concVars>>

\* m[n][i] = v, by a caller
ListSetItem(s, n, i, v) ==
  /\ edits < MaxEdits
  /\ n \in DOMAIN held[s].dict
  /\ i \in 1..Len(heap[held[s].dict[n]])
  /\ heap' = [heap EXCEPT ![held[s].dict[n]][i] = v]
  /\ edits' = edits + 1
  /\ last' = [op |-> "edit", slot |-> s, dimension |-> 0, outcome |-> "none"]
  /\ UNCHANGED <<held, evalVars, concVars>>

\* m[n].append(v), by a caller
ListAppend(s, n, v) ==
  /\ edits < MaxEdits
  /\ n \in DOMAIN held[s].dict
  /\ Len(heap[held[s].dict[n]]) < MaxLen
  /\ heap' = [heap EXCEPT ![held[s].dict[n]] = Append(@, v)]
  /\ edits' = edits + 1
  /\ last' = [op |-> "edit", slot |-> s, dimension |-> 0, outcome |-> "none"]
  /\ UNCHANGED <<held, evalVars, concVars>>

\* bf.<n>([m[n]]), by a caller: a function evaluated at a point of a held
\* optimal_solution mapping; the outcome is consumed at once
EvaluateHeld(s, n) ==
  /\ held[s].kind = "optimal_solution"
  /\ last' = [op |-> "evaluate", slot |-> s, dimension |-> 0,
              outcome |-> Apply(n, OneRow(heap[held[s].dict[n]])).outcome]
  /\ UNCHANGED <<heap, held, edits, evalVars, concVars>>

MetaNext ==
  \/ \E s \in Slots : SearchArea(s)
  \/ \E s \in Slots, d \in 0..MaxDimension : OptimalSolution(s, d)
  \/ \E s \in Slots, n \in Names, i \in 1..MaxLen, v \in EditVals : ListSetItem(s, n, i, v)
  \/ \E s \in Slots, n \in Names, v \in EditVals : ListAppend(s, n, v)
  \/ \E s \in Slots, n \in Names : EvaluateHeld(s, n)

SpecMeta == Init /\ [][MetaNext]_vars

\* ------------------------------------------------- interleaved calls
\* caller c calls function f on its array x
Invoke(c, f, x) ==
  /\ pc[c] = "idle"
  /\ pc' = [pc EXCEPT ![c] = "check"]
  /\ cfn' = [cfn EXCEPT ![c] = f]
  /\ carg' = [carg EXCEPT ![c] = x]
  /\ UNCHANGED <<clocal, cres, evalVars, metaVars>>

\* input_array = check(input_array)
CheckStep(c) ==
  /\ pc[c] = "check"
  /\ LET r == check(carg[c])
     IN  IF r.outcome # "ok"
         THEN /\ cres' = [cres EXCEPT ![c] = r]
              /\ pc' = [pc EXCEPT ![c] = "done"]
              /\ UNCHANGED clocal
         ELSE /\ clocal' = Bind(clocal, c, r.output)
              /\ pc' = [pc EXCEPT ![c] = "body"]
              /\ UNCHANGED cres
  /\ UNCHANGED <<cfn, carg, evalVars, metaVars>>

\* the rest of the function, up to its return or raise
BodyStep(c) ==
  /\ pc[c] = "body"
  /\ cres' = [cres EXCEPT ![c] = Body(cfn[c], clocal[c])]
  /\ pc' = [pc EXCEPT ![c] = "done"]
  /\ UNCHANGED <<cfn, carg, clocal, evalVars, metaVars>>

\* the caller has the outcome; the frame is gone
Finish(c) ==
  /\ pc[c] = "done"
  /\ pc' = [pc EXCEPT ![c] = "idle"]
  /\ cfn' = [cfn EXCEPT ![c] = "none"]
  /\ carg' = [carg EXCEPT ![c] = NoInput]
  /\ clocal' = [clocal EXCEPT ![c] = NoInput]
  /\ cres' = [cres EXCEPT ![c] = NoCall]
  /\ UNCHANGED <<evalVars, metaVars>>

ConcNext ==
  \/ \E c \in Callers, f \in Names, x \in ConcInputs : Invoke(c, f, x)
  \/ \E c \in Callers : CheckStep(c)
  \/ \E c \in Callers : BodyStep(c)
  \/ \E c \in Callers : Finish(c)

SpecConc == Init /\ [][ConcNext]_vars

\* ------------------------------------------------------------ properties
\* C1: a call whose input has rank other than 2 ends in ShapeError and returns
\* no output vector; a call whose input has rank 2 never ends in ShapeError.
C1_RankDecidesShapeError ==
  called # "none" =>
    /\ Len(input.shape) # 2 => result.outcome = "ShapeError" /\ ~result.returned
    /\ Len(input.shape) = 2 => result.outcome # "ShapeError"

C1_Witness ==
  /\ called = "schaffer"
  /\ Len(input.shape) = 3
  /\ result.outcome = "ShapeError"

\* C2: on every rank-2 batch of shape (n, m), n >= 0 and m >= 1, each function
\* completes without error and returns an output vector of length n.
C2_NoOtherError ==
  (called # "none" /\ Len(input.shape) = 2) =>
    /\ result.outcome = "ok"
    /\ Len(result.output) = input.shape[1]

\* C3: for every name and dimension d >= 2, the function evaluated on the
\* one-row batch of optimal_solution(d)[name] returns the one-element vector 0.
C3_ZeroAtOptimum ==
  \A d \in 2..MaxCells :
    (called # "none" /\ input = OneRow(OptimalPoint(d, called))) =>
      result = Ok(<<IF called \in IntNames THEN 0 ELSE RZero>>)

C3_Witness ==
  /\ called = "rastrigin"
  /\ input = OneRow(<<1, 1, 1>>)
  /\ result.outcome = "ok"

\* C4: element j of the output of a batch equals the single element returned
\* when row j alone is evaluated as a one-row batch.
C4_BatchInvariance ==
  (called # "none" /\ result.outcome = "ok") =>
    \A j \in 1..Rows(input) :
      LET single == Apply(called, OneRow(Row(input, j)))
      IN  single.outcome = "ok" /\ single.output = <<result.output[j]>>

C4_Witness ==
  /\ called = "sphere"
  /\ result.outcome = "ok"
  /\ Rows(input) = 2
  /\ result.output[1] # result.output[2]

\* C7: k_tablet returns, for each row x of length m, the sum of x_i^2 over the
\* first k = ceil(m/4) components plus the sum of (100 x_i)^2 over the other
\* m - k; k >= 1; and k_tablet([[1,1,1,1]]) = [30001].
C7_KTablet ==
  (called = "k_tablet" /\ Len(input.shape) = 2) =>
    LET m == input.shape[2]
        k == CHOOSE c \in 0..m : 4 * c >= m /\ 4 * (c - 1) < m
    IN  /\ k >= 1
        /\ result.outcome = "ok"
        /\ \A j \in 1..Rows(input) :
             result.output[j] =
               SeqSum([i \in 1..m |->
                 IF i <= k THEN Row(input, j)[i] * Row(input, j)[i]
                 ELSE 10000 * Row(input, j)[i] * Row(input, j)[i]])
        /\ input = OneRow(<<1, 1, 1, 1>>) => result.output = <<30001>>

C7_Witness ==
  /\ called = "k_tablet"
  /\ input = OneRow(<<1, 1, 1, 1>>)
  /\ result.output = <<30001>>

\* C9: for m >= 2, sphere and k_tablet are >= 0 and 0 only at the all-zeros
\* row; rosenbrock_star and rosenbrock_chain are >= 0 and 0 only at the
\* all-ones row.
C9_UniqueMinimiser ==
  (called \in IntNames /\ Len(input.shape) = 2 /\ input.shape[2] >= 2) =>
    \A j \in 1..Rows(input) :
      /\ result.output[j] >= 0
      /\ result.output[j] = 0 =>
           Row(input, j) = [i \in 1..input.shape[2] |->
                             IF called \in {"sphere", "k_tablet"} THEN 0 ELSE 1]

C9_Witness ==
  /\ called = "rosenbrock_chain"
  /\ input.shape = <<2, 2>>
  /\ result.output[1] = 0
  /\ result.output[2] > 0

\* the table of C5, in thousandths
SearchAreaTable ==
  [sphere |-> <<-5120, 5120>>, ellipsoid |-> <<-5120, 5120>>,
   k_tablet |-> <<-5120, 5120>>, bohachevsky |-> <<-5120, 5120>>,
   rastrigin |-> <<-5120, 5120>>,
   rosenbrock_star |-> <<-2048, 2048>>, rosenbrock_chain |-> <<-2048, 2048>>,
   ackley |-> <<-32768, 32768>>, schaffer |-> <<-100000, 100000>>]

\* C5: whatever was called before and whatever callers did to the mappings
\* returned before, search_area() returns exactly the fixed nine-entry table.
C5_SearchAreaFixed ==
  last.op = "search_area" => Deref(heap, held[last.slot].dict) = SearchAreaTable

C5_Witness ==
  /\ last.op = "search_area"
  /\ \E s \in Slots \ {last.slot} :
       /\ held[s].kind = "search_area"
       /\ Deref(heap, held[s].dict) # SearchAreaTable

\* C6: optimal_solution(d), d >= 0, returns a mapping with exactly the nine
\* names, every point of length d, all ones for rosenbrock_star,
\* rosenbrock_chain and rastrigin and all zeros for the others.
C6_OptimalSolutionShape ==
  last.op = "optimal_solution" =>
    LET m == Deref(heap, held[last.slot].dict)
    IN  /\ DOMAIN m = Names
        /\ \A n \in Names :
             /\ Len(m[n]) = last.dimension
             /\ \A i \in 1..last.dimension :
                  m[n][i] = IF n \in {"rosenbrock_star", "rosenbrock_chain", "rastrigin"}
                            THEN 1 ELSE 0

C6_Witness ==
  /\ last.op = "optimal_solution"
  /\ last.dimension = 0
  /\ Deref(heap, held[last.slot].dict)["sphere"] = <<>>
  /\ \E s \in Slots \ {last.slot} :
       /\ held[s].kind = "optimal_solution"
       /\ heap[held[s].dict["rastrigin"]] = <<1, 1>>

\* C10: when a caller modifies in place the point under one name of a mapping
\* returned by optimal_solution, the points under every other name of that
\* mapping, and the points of every other such mapping, are unchanged.
C10_PointsShareNothing ==
  [][(held' = held /\ heap' # heap) =>
       \A s1 \in Slots, s2 \in Slots :
         \A n1 \in DOMAIN held[s1].dict, n2 \in DOMAIN held[s2].dict :
           ( /\ <<s1, n1>> # <<s2, n2>>
             /\ held[s1].kind = "optimal_solution"
             /\ held[s2].kind = "optimal_solution" ) =>
             ~ ( /\ heap'[held[s1].dict[n1]] # heap[held[s1].dict[n1]]
                 /\ heap'[held[s2].dict[n2]] # heap[held[s2].dict[n2]] )]_vars

\* C8: under any interleaving, a call returns what it returns when run alone
\* on the same input, and no call changes the input array of any caller.
C8_CallsIndependent ==
  [][\A c \in Callers :
       /\ pc'[c] = "done" => cres'[c] = Apply(cfn'[c], carg'[c])
       /\ (pc[c] # "idle" /\ pc'[c] # "idle") => carg'[c] = carg[c]]_vars

C8_Witness ==
  /\ pc["a"] = "done"
  /\ cres["a"].outcome = "ok"
  /\ pc["b"] = "body"
  /\ cfn["a"] # cfn["b"]
  /\ carg["a"] # carg["b"]
  /\ clocal["b"] = carg["b"]

====
